---- MODULE Spec2Model ----
(***************************************************************************)
(* Model of the two programs of UTAU VST Host: the offline renderer        *)
(* (src/vst_host/src/main.cpp) and the host with a window                  *)
(* (src/vst_host/src/gui_main.cpp).  Strings are sequences of              *)
(* one-character strings, so that trimming, unquoting and number parsing   *)
(* are computed.                                                           *)
(***************************************************************************)
EXTENDS Integers, Sequences, FiniteSets, TLC

(* ---------------------------------------------------------------- bounds *)
\* longest "plugins" array of a manifest
MaxEntries == 2
\* largest lengthInSamples of the input reader
MaxFrames == 129

(* ------------------------------------------------------ program constants *)
DefaultBlockSize == 512
MinBlockSize == 64

(* ------------------------------------------------------------ string kit *)
Str_input == <<"-", "-", "i", "n", "p", "u", "t">>
Str_output == <<"-", "-", "o", "u", "t", "p", "u", "t">>
Str_chain == <<"-", "-", "c", "h", "a", "i", "n">>
Str_block == <<"-", "-", "b", "l", "o", "c", "k">>
Str_help == <<"-", "-", "h", "e", "l", "p">>
Str_h == <<"-", "h">>
Str_wav == <<"w", "a", "v">>

isNotEmpty(s) == Len(s) > 0

isWhitespace(c) == c = " "

RECURSIVE trimStart(_)
trimStart(s) ==
  IF Len(s) > 0 /\ isWhitespace(s[1]) THEN trimStart(Tail(s)) ELSE s

RECURSIVE trimEnd(_)
trimEnd(s) ==
  IF Len(s) > 0 /\ isWhitespace(s[Len(s)])
  THEN trimEnd(SubSeq(s, 1, Len(s) - 1)) ELSE s

trim(s) == trimEnd(trimStart(s))

startsWithChar(s, c) == Len(s) > 0 /\ s[1] = c
endsWithChar(s, c) == Len(s) > 0 /\ s[Len(s)] = c

\* String::substring(start, end), 0-based, end exclusive
substring(s, start, end) == SubSeq(s, start + 1, end)

digitValue(c) ==
  CASE c = "0" -> 0 [] c = "1" -> 1 [] c = "2" -> 2 [] c = "3" -> 3
    [] c = "4" -> 4 [] c = "5" -> 5 [] c = "6" -> 6 [] c = "7" -> 7
    [] c = "8" -> 8 [] c = "9" -> 9 [] OTHER -> -1

\* accumulates the leading digits (the command lines of the model stay far
\* below the 32-bit range, where the accumulation does not wrap)
RECURSIVE digitsValue(_, _)
digitsValue(s, v) ==
  IF Len(s) > 0 /\ digitValue(s[1]) >= 0
  THEN digitsValue(Tail(s), v * 10 + digitValue(s[1]))
  ELSE v

\* String::getIntValue: leading whitespace, optional '-', digits; else 0
getIntValue(s) ==
  LET t == trimStart(s)
      isNeg == startsWithChar(t, "-")
      v == digitsValue(IF isNeg THEN Tail(t) ELSE t, 0)
  IN IF isNeg THEN -v ELSE v

jmax_second(a, b) == b

jmax(a, b) == IF a < b THEN b ELSE a
jmin(a, b) == IF b < a THEN b ELSE a

(* -------------------------------------------------------------- parseArgs *)
Args == [input |-> <<>>, output |-> <<>>, chain |-> <<>>,
         blockSize |-> DefaultBlockSize]

\* the loop of parseArgs; i is the 1-based index of the argument looked at
RECURSIVE parseArgsLoop(_, _, _)
parseArgsLoop(argv, i, args) ==
  IF i > Len(argv) THEN [help |-> FALSE, args |-> args]
  ELSE LET arg == argv[i]
           more == i + 1 <= Len(argv)
       IN IF arg = Str_help \/ arg = Str_h
          THEN [help |-> TRUE, args |-> args]
          ELSE IF arg = Str_input /\ more
          THEN parseArgsLoop(argv, i + 2, [args EXCEPT !.input = argv[i + 1]])
          ELSE IF arg = Str_output /\ more
          THEN parseArgsLoop(argv, i + 2, [args EXCEPT !.output = argv[i + 1]])
          ELSE IF arg = Str_chain /\ more
          THEN parseArgsLoop(argv, i + 2, [args EXCEPT !.chain = argv[i + 1]])
          ELSE IF arg = Str_block /\ more
          THEN parseArgsLoop(argv, i + 2,
                 [args EXCEPT !.blockSize =
                                 jmax(MinBlockSize, getIntValue(argv[i + 1]))])
          ELSE parseArgsLoop(argv, i + 1, args)

parseArgs(argv) ==
  LET r == parseArgsLoop(argv, 2, Args)
  IN [ok |-> ~r.help /\ isNotEmpty(r.args.input) /\ isNotEmpty(r.args.output)
                /\ isNotEmpty(r.args.chain),
      args |-> r.args]

(* ------------------------------------------------------------ resolvePath *)
isAbsolutePath(s) == startsWithChar(s, "/")

\* File::getChildFile(rel).getFullPathName(); an empty rel is the directory
getChildFile(baseDir, rel) ==
  IF Len(rel) = 0 THEN baseDir ELSE baseDir \o <<"/">> \o rel

unquote(s, q) ==
  IF Len(s) >= 2 /\ startsWithChar(s, q) /\ endsWithChar(s, q)
  THEN trim(substring(s, 1, Len(s) - 1)) ELSE s

resolvePath(baseDir, path) ==
  LET cleaned == unquote(unquote(trim(path), "\""), "'")
  IN IF isAbsolutePath(cleaned) THEN cleaned
     ELSE getChildFile(baseDir, cleaned)

RECURSIVE lastIndexOf(_, _)
lastIndexOf(s, c) ==
  IF Len(s) = 0 THEN 0
  ELSE IF s[Len(s)] = c THEN Len(s)
  ELSE lastIndexOf(SubSeq(s, 1, Len(s) - 1), c)

\* File::getParentDirectory().getFullPathName()
getParentDirectory(p) ==
  LET k == lastIndexOf(p, "/")
  IN IF k <= 1 THEN <<"/">> ELSE SubSeq(p, 1, k - 1)

(* -------------------------------------------------------------- loadChain *)
\* static_cast<bool>(var): a missing property is void and converts to false
varToBool(v) == v = "true"

ChainSlot(pluginPath, presetPath, bypass) ==
  [pluginPath |-> pluginPath, presetPath |-> presetPath, bypass |-> bypass]

\* the body of the for loop of loadChain for one array element
slotOfEntry(baseDir, entry) ==
  ChainSlot(IF isNotEmpty(entry.path) THEN resolvePath(baseDir, entry.path)
            ELSE <<>>,
            IF isNotEmpty(entry.preset) THEN resolvePath(baseDir, entry.preset)
            ELSE <<>>,
            varToBool(entry.bypass))

RECURSIVE loadChainLoop_prepends(_, _, _)
loadChainLoop_prepends(baseDir, plugins, slots) ==
  IF Len(plugins) = 0 THEN slots
  ELSE LET entry == Head(plugins)
           slot == slotOfEntry(baseDir, entry)
       IN IF ~entry.isObject
          THEN loadChainLoop_prepends(baseDir, Tail(plugins), slots)
          ELSE IF isNotEmpty(slot.pluginPath)
          THEN loadChainLoop_prepends(baseDir, Tail(plugins), <<slot>> \o slots)
          ELSE loadChainLoop_prepends(baseDir, Tail(plugins), slots)

RECURSIVE loadChainLoop(_, _, _)
loadChainLoop(baseDir, plugins, slots) ==
  IF Len(plugins) = 0 THEN slots
  ELSE LET entry == Head(plugins)
           slot == slotOfEntry(baseDir, entry)
       IN IF ~entry.isObject
          THEN loadChainLoop(baseDir, Tail(plugins), slots)
          ELSE IF isNotEmpty(slot.pluginPath)
          THEN loadChainLoop(baseDir, Tail(plugins), Append(slots, slot))
          ELSE loadChainLoop(baseDir, Tail(plugins), slots)

loadChain_keepsEmpty(chainFile, data) ==
  IF data.kind = "notObject"
  THEN [ok |-> FALSE, slots |-> <<>>, error |-> "Chain JSON is invalid."]
  ELSE IF data.kind # "array"
  THEN [ok |-> FALSE, slots |-> <<>>,
        error |-> "Chain JSON missing 'plugins' array."]
  ELSE IF Len(data.plugins) = 0
  THEN [ok |-> FALSE, slots |-> <<>>, error |-> "Chain JSON has no plugins."]
  ELSE [ok |-> TRUE,
        slots |-> loadChainLoop(getParentDirectory(chainFile),
                                data.plugins, <<>>),
        error |-> ""]

loadChain(chainFile, data) ==
  IF data.kind = "notObject"
  THEN [ok |-> FALSE, slots |-> <<>>, error |-> "Chain JSON is invalid."]
  ELSE IF data.kind # "array"
  THEN [ok |-> FALSE, slots |-> <<>>,
        error |-> "Chain JSON missing 'plugins' array."]
  ELSE IF Len(data.plugins) = 0
  THEN [ok |-> FALSE, slots |-> <<>>, error |-> "Chain JSON has no plugins."]
  ELSE LET slots == loadChainLoop(getParentDirectory(chainFile),
                                  data.plugins, <<>>)
       IN IF Len(slots) = 0
          THEN [ok |-> FALSE, slots |-> slots,
                error |-> "Chain JSON has no valid plugin paths."]
          ELSE [ok |-> TRUE, slots |-> slots, error |-> ""]

(* ------------------------------------------------------------ environment *)
\* plugin format backends added to pluginFormats, in registration order
Formats == <<"VST3", "VST">>

File_in == <<"i">>
File_manifest == <<"/", "d", "/", "m">>
File_outWav == <<"o", ".", "W", "a", "v">>
File_outXyz == <<"o", ".", "x">>
File_outAiff == <<"o", ".", "a", "i", "f", "f">>
Plugin_a == <<"/", "d", "/", "a">>
Plugin_c == <<"/", "d", "/", "c">>
Plugin_e == <<"/", "d", "/", "e">>
Preset_p == <<"/", "d", "/", "p">>
Preset_r == <<"/", "d", "/", "r">>

\* What the format backends answer for a plugin file: per backend the
\* compatibility check and the number of types it enumerates, whether the
\* first type can be instantiated, and the only channel count the plugin
\* accepts (0: any).  Every other path holds no plugin.
pluginFile(path) ==
  CASE path = Plugin_a -> [might |-> <<TRUE, FALSE>>, types |-> <<2, 0>>,
                           creatable |-> TRUE, fixedChannels |-> 0]
    [] path = Plugin_c -> [might |-> <<FALSE, TRUE>>, types |-> <<1, 1>>,
                           creatable |-> FALSE, fixedChannels |-> 0]
    [] path = Plugin_e -> [might |-> <<TRUE, TRUE>>, types |-> <<0, 1>>,
                           creatable |-> TRUE, fixedChannels |-> 2]
    [] OTHER -> [might |-> <<FALSE, FALSE>>, types |-> <<0, 0>>,
                 creatable |-> FALSE, fixedChannels |-> 0]

\* the preset files on disk
presetFile(path) ==
  CASE path = Preset_p -> "readable"
    [] path = Preset_r -> "unreadable"
    [] OTHER -> "missing"

\* audio formats of registerBasicFormats, by lower-case extension
BasicFormats == {Str_wav, <<"a", "i", "f", "f">>}

Ev(op, who, n) == [op |-> op, who |-> who, n |-> n]

(* ------------------------------------------------------------- loadPlugin *)
\* the types one backend appends for the file
typesOfFormat(file, f) ==
  [k \in 1..pluginFile(file).types[f] |-> [file |-> file, format |-> f, index |-> k]]

\* the loop with every backend enumerating, whatever its check answers
RECURSIVE findTypes_unchecked(_, _, _, _)
findTypes_unchecked(file, f, types, calls) ==
  IF f > Len(Formats) THEN [types |-> types, calls |-> calls]
  ELSE findTypes_unchecked(file, f + 1, types \o typesOfFormat(file, f),
                           calls \o <<Ev("fileMightContainThisPluginType", 0, f),
                                      Ev("findAllTypesForFile", 0, f)>>)

\* the loop over formatManager.getFormats(): accumulated types and calls
RECURSIVE findTypes(_, _, _, _)
findTypes(file, f, types, calls) ==
  IF f > Len(Formats) THEN [types |-> types, calls |-> calls]
  ELSE IF ~pluginFile(file).might[f]
  THEN findTypes(file, f + 1, types,
                 Append(calls, Ev("fileMightContainThisPluginType", 0, f)))
  ELSE findTypes(file, f + 1, types \o typesOfFormat(file, f),
                 calls \o <<Ev("fileMightContainThisPluginType", 0, f),
                            Ev("findAllTypesForFile", 0, f)>>)

NoInstance == [id |-> 0, desc |-> [file |-> <<>>, format |-> 0, index |-> 0],
               nonRealtime |-> FALSE, channels |-> 0, sampleRate |-> 0,
               blockSize |-> 0, prepared |-> FALSE, state |-> <<>>]

\* channel count the instance runs with after setBusesLayout(layout)
layoutAfterRequest(file, numChannels) ==
  IF pluginFile(file).fixedChannels = 0 THEN numChannels
  ELSE pluginFile(file).fixedChannels

prepareCalls_resetFirst(numChannels, blockSize) ==
  <<Ev("setNonRealtime", 0, 1), Ev("reset", 0, 0),
    Ev("setBusesLayout", 0, numChannels), Ev("prepareToPlay", 0, blockSize)>>

\* lines 154-164: what loadPlugin does with the instance it created
prepareCalls(numChannels, blockSize) ==
  <<Ev("setNonRealtime", 0, 1), Ev("setBusesLayout", 0, numChannels),
    Ev("prepareToPlay", 0, blockSize), Ev("reset", 0, 0)>>

loadPlugin(file, sampleRate, blockSize, numChannels, id) ==
  LET found == findTypes(file, 1, <<>>, <<>>)
  IN IF Len(found.types) = 0
     THEN [ok |-> FALSE, instance |-> NoInstance, calls |-> found.calls,
           error |-> "No plugin types found"]
     ELSE LET desc == found.types[1]
              created == found.calls
                           \o <<Ev("createPluginInstance", 0, desc.format)>>
          IN IF ~pluginFile(file).creatable
             THEN [ok |-> FALSE, instance |-> NoInstance, calls |-> created,
                   error |-> "createPluginInstance"]
             ELSE [ok |-> TRUE,
                   instance |->
                     [id |-> id, desc |-> desc, nonRealtime |-> TRUE,
                      channels |-> layoutAfterRequest(file, numChannels),
                      sampleRate |-> sampleRate, blockSize |-> blockSize,
                      prepared |-> TRUE, state |-> <<>>],
                   calls |-> created \o prepareCalls(numChannels, blockSize),
                   error |-> ""]

(* ------------------------------------------------------------ applyPreset *)
applyPreset_unchecked(instance, presetPath) ==
  IF Len(presetPath) = 0
  THEN [ok |-> TRUE, instance |-> instance, calls |-> <<>>]
  ELSE [ok |-> presetFile(presetPath) = "readable",
        instance |-> [instance EXCEPT !.state = presetPath],
        calls |-> <<Ev("loadFileAsData", 0, 0),
                    Ev("setStateInformation", 0, 0)>>]

applyPreset(instance, presetPath) ==
  IF Len(presetPath) = 0
  THEN [ok |-> TRUE, instance |-> instance, calls |-> <<>>]
  ELSE IF presetFile(presetPath) = "missing"
  THEN [ok |-> FALSE, instance |-> instance,
        calls |-> <<Ev("existsAsFile", 0, 0)>>]
  ELSE IF presetFile(presetPath) = "unreadable"
  THEN [ok |-> FALSE, instance |-> instance,
        calls |-> <<Ev("existsAsFile", 0, 0), Ev("loadFileAsData", 0, 0)>>]
  ELSE [ok |-> TRUE, instance |-> [instance EXCEPT !.state = presetPath],
        calls |-> <<Ev("existsAsFile", 0, 0), Ev("loadFileAsData", 0, 0),
                    Ev("setStateInformation", 0, 0)>>]

\* the calls made on behalf of slot (or instance) who
tag(calls, who) == [k \in 1..Len(calls) |-> [calls[k] EXCEPT !.who = who]]

(* ------------------------------------------------------------------ inputs *)
Prog == <<"h", "o", "s", "t">>
RequiredArgs == <<Prog, Str_input, File_in, Str_chain, File_manifest>>

\* command lines the renderer is started with
ArgvChoices ==
  { <<Prog>>,
    <<Prog, Str_help>>,
    RequiredArgs,
    RequiredArgs \o <<Str_output>>,
    RequiredArgs \o <<Str_output, <<>> >>,
    RequiredArgs \o <<Str_output, File_outWav>>,
    RequiredArgs \o <<Str_output, File_outWav, Str_h>>,
    RequiredArgs \o <<Str_output, File_outXyz, Str_block, <<"1", "0">> >>,
    RequiredArgs \o <<Str_output, File_outXyz, Str_block, <<"-", "5">> >>,
    RequiredArgs \o <<Str_output, File_outAiff, Str_block, <<"x">> >>,
    RequiredArgs \o <<Str_block, <<" ", "7", "0", "k">>, Str_output, File_outWav>> }

\* what createReaderFor reports for the input file
ReaderChoices ==
  { [open |-> TRUE, sampleRate |-> 44100, numChannels |-> 1],
    [open |-> TRUE, sampleRate |-> 48000, numChannels |-> 2] }
NoReader == [open |-> FALSE, sampleRate |-> 0, numChannels |-> 0]

\* lengthInSamples of the input (a reader reports no negative length): the
\* lengths next to the multiples of the smallest block size
FrameCounts ==
  { n \in 0..MaxFrames : (n % MinBlockSize) \in {0, 1, MinBlockSize - 1} }

Entry(isObject, path, preset, bypass) ==
  [isObject |-> isObject, path |-> path, preset |-> preset, bypass |-> bypass]

\* elements of the "plugins" array
Entries ==
  { Entry(FALSE, <<>>, <<>>, "absent"),
    Entry(TRUE, <<>>, <<"p">>, "absent"),
    Entry(TRUE, <<" ">>, <<>>, "absent"),
    Entry(TRUE, <<"a">>, <<>>, "absent"),
    Entry(TRUE, <<" ", "a">>, <<"'", "p", "'">>, "false"),
    Entry(TRUE, <<"\"", "a", "\"">>, <<"q">>, "absent"),
    Entry(TRUE, <<"/", "d", "/", "e">>, <<"r">>, "absent"),
    Entry(TRUE, <<"b">>, <<"p">>, "true"),
    Entry(TRUE, <<"c">>, <<>>, "absent") }

\* parsed content of the chain file
Manifests ==
  { [kind |-> "notObject", plugins |-> <<>>],
    [kind |-> "noArray", plugins |-> <<>>] }
  \cup { [kind |-> "array", plugins |-> ps] :
           ps \in UNION { [1..n -> Entries] : n \in 0..MaxEntries } }

(* ------------------------------------------------------------------- state *)
VARIABLES
  pc,            \* position of main
  exitCode,      \* value returned by main, -1 while it runs
  destroyed,     \* instances deleted when main returned, in that order
  argv,          \* the command line of the renderer
  args,          \* Args filled by parseArgs
  reader,        \* the AudioFormatReader of the input file
  totalSamples,  \* reader->lengthInSamples as read by main
  manifest,      \* parsed chain file
  slots,         \* Array<ChainSlot> filled by loadChain
  slotIdx,       \* slot the instantiation loop is at
  instances,     \* OwnedArray<AudioPluginInstance>
  calls,         \* calls main has made on files, backends and instances
  warnings,      \* slots whose preset warning was printed
  checks,        \* the checks main has made, with their outcome
  position,      \* stream position of the render loop
  block,         \* length of the segment being rendered
  j,             \* instance the inner loop of the render loop is at
  buffer,        \* the shared AudioBuffer
  output,        \* segments handed to the writer
  writer,        \* the AudioFormatWriter
  outFile        \* what happened to the output file

(* ===================================================== interactive host *)
(* The single-plugin host with a window (src/vst_host/src/gui_main.cpp).  *)

Str_plugin == <<"-", "-", "p", "l", "u", "g", "i", "n">>
Str_preset == <<"-", "-", "p", "r", "e", "s", "e", "t">>
Str_save == <<"-", "-", "s", "a", "v", "e">>

GuiArgs == [pluginPath |-> <<>>, presetPath |-> <<>>, savePath |-> <<>>,
            blockSize |-> DefaultBlockSize]

\* the loop of parseArgs over the tokens of the command line, from token i
RECURSIVE guiParseArgsLoop(_, _, _)
guiParseArgsLoop(tokens, i, out) ==
  IF i > Len(tokens) THEN out
  ELSE LET arg == tokens[i]
           more == i + 1 <= Len(tokens)
       IN IF arg = Str_plugin /\ more
          THEN guiParseArgsLoop(tokens, i + 2,
                                [out EXCEPT !.pluginPath = tokens[i + 1]])
          ELSE IF arg = Str_preset /\ more
          THEN guiParseArgsLoop(tokens, i + 2,
                                [out EXCEPT !.presetPath = tokens[i + 1]])
          ELSE IF arg = Str_save /\ more
          THEN guiParseArgsLoop(tokens, i + 2,
                                [out EXCEPT !.savePath = tokens[i + 1]])
          ELSE IF arg = Str_block /\ more
          THEN guiParseArgsLoop(tokens, i + 2,
                 [out EXCEPT !.blockSize =
                                jmax(MinBlockSize, getIntValue(tokens[i + 1]))])
          ELSE guiParseArgsLoop(tokens, i + 1, out)

guiParseArgs(tokens) ==
  LET out == guiParseArgsLoop(tokens, 1, GuiArgs)
  IN [ok |-> isNotEmpty(out.pluginPath), args |-> out]

\* File(): the default-constructed file, which has an empty path
NoFile == <<>>
Plugin_n == <<"/", "d", "/", "n">>
Save_s == <<"/", "d", "/", "s">>

\* File::exists() for the paths a plugin is opened from
fileExists(path) ==
  path \in {Plugin_a, Plugin_c, Plugin_e, File_manifest, Preset_p, Preset_r}

\* sample rate and channel layout the window host prepares its plugin with
GuiSampleRate == 44100
StereoChannels == 2

gEv(op, path, n) == [op |-> op, path |-> path, n |-> n]

guiLoadPlugin(file, sampleRate, blockSize) ==
  LET found == findTypes(file, 1, <<>>, <<>>)
      looked == [k \in 1..Len(found.calls) |->
                   gEv(found.calls[k].op, file, found.calls[k].n)]
  IN IF Len(found.types) = 0
     THEN [ok |-> FALSE, instance |-> NoInstance, calls |-> looked,
           error |-> "No plugin types found"]
     ELSE LET desc == found.types[1]
              created == Append(looked,
                                gEv("createPluginInstance", file, desc.format))
          IN IF ~pluginFile(file).creatable
             THEN [ok |-> FALSE, instance |-> NoInstance, calls |-> created,
                   error |-> ""]
             ELSE [ok |-> TRUE,
                   instance |->
                     [id |-> 1, desc |-> desc, nonRealtime |-> FALSE,
                      channels |-> layoutAfterRequest(file, StereoChannels),
                      sampleRate |-> sampleRate, blockSize |-> blockSize,
                      prepared |-> TRUE, state |-> <<>>],
                   calls |-> created
                     \o <<gEv("setBusesLayout", file, StereoChannels),
                          gEv("prepareToPlay", file, blockSize),
                          gEv("reset", file, 0)>>,
                   error |-> ""]

guiApplyPreset(inst, file) ==
  IF presetFile(file) = "missing"
  THEN [ok |-> FALSE, instance |-> inst,
        calls |-> <<gEv("existsAsFile", file, 0)>>]
  ELSE IF presetFile(file) = "unreadable"
  THEN [ok |-> FALSE, instance |-> inst,
        calls |-> <<gEv("existsAsFile", file, 1),
                    gEv("loadFileAsData", file, 0)>>]
  ELSE [ok |-> TRUE, instance |-> [inst EXCEPT !.state = file],
        calls |-> <<gEv("existsAsFile", file, 1),
                    gEv("loadFileAsData", file, 1),
                    gEv("setStateInformation", file, 0)>>]

\* a file on disk the host can write a preset to
FileData(exists, data) == [exists |-> exists, data |-> data]

\* savePreset; written tells whether replaceWithData succeeds
savePreset(inst, file, files, written) ==
  [ok |-> written,
   files |-> IF written
             THEN [files EXCEPT ![file] = FileData(TRUE, inst.state)]
             ELSE files,
   calls |-> <<gEv("getStateInformation", NoFile, 0),
               gEv("replaceWithData", file, IF written THEN 1 ELSE 0)>>]

\* what a handler of HostComponent leaves behind
Handled(path, chooser, files, made) ==
  [presetPath |-> path, fileChooser |-> chooser, files |-> files,
   calls |-> made]

alertIfNot(ok) ==
  IF ok THEN <<>> ELSE <<gEv("showMessageBoxAsync", NoFile, 0)>>

handleSaveAs(path, files) ==
  Handled(path, TRUE, files, <<gEv("launchAsync", path, 0)>>)

handleSave(inst, path, chooser, files, written) ==
  IF path = NoFile THEN handleSaveAs(path, files)
  ELSE LET saved == savePreset(inst, path, files, written)
       IN Handled(path, chooser, saved.files,
                  saved.calls \o alertIfNot(saved.ok))

\* the callback given to launchAsync, run with the chooser's result
chooserCallback_keepsPath(inst, path, files, result, written) ==
  IF result = NoFile
  THEN Handled(path, FALSE, files, <<>>)
  ELSE LET saved == savePreset(inst, result, files, written)
       IN Handled(path, FALSE, saved.files,
                  saved.calls \o alertIfNot(saved.ok))

chooserCallback(inst, path, files, result, written) ==
  IF result = NoFile
  THEN Handled(path, FALSE, files, <<>>)
  ELSE LET saved == savePreset(inst, result, files, written)
       IN Handled(result, FALSE, saved.files,
                  saved.calls \o alertIfNot(saved.ok))

\* command lines of the window host, as the tokens initialise splits them in
GuiArgvChoices ==
  { <<>>,
    <<Str_preset, Preset_p>>,
    <<Str_plugin, Plugin_n>>,
    <<Str_plugin, File_manifest>>,
    <<Str_plugin, Plugin_c>>,
    <<Str_plugin, Plugin_a>>,
    <<Str_plugin, Plugin_a, Str_block>>,
    <<Str_plugin, Plugin_a, Str_block, <<"1", "0">>, Str_save, Save_s>>,
    <<Str_block, <<"-", "5">>, Str_plugin, Plugin_a, Str_preset, Save_s>>,
    <<Str_plugin, Plugin_e, Str_preset, Preset_p, Str_block, <<"7", "0">> >>,
    <<Str_plugin, Plugin_e, Str_block, <<"0">>, Str_save, Preset_p>>,
    <<Str_plugin, Plugin_a, Str_preset, Preset_r, Str_block, <<"x">> >> }

\* the files a preset can be saved to, and what the disk holds at start
SaveTargets == {Preset_p, Save_s}
DiskAtStart ==
  [t \in SaveTargets |->
     IF presetFile(t) = "missing" THEN FileData(FALSE, <<>>)
     ELSE FileData(TRUE, t)]

VARIABLES
  appPc,          \* where the application is: initialise .. stopped
  tokens,         \* the tokens of the command line
  parsed,         \* GuiArgs filled by parseArgs
  returnValue,    \* the application return value
  failMessage,    \* the message of fail(), "" when none is shown
  appInstance,    \* VstHostGuiApp::instance, NoInstance when null
  window,         \* VstHostGuiApp::window is set
  hostPresetPath, \* HostComponent::presetPath
  fileChooser,    \* HostComponent::fileChooser is set (the dialog is open)
  disk,           \* content of the files a preset can be saved to
  guiCalls,       \* calls and user events of the window host so far
  clicks          \* number of user inputs so far

guiVars == <<appPc, tokens, parsed, returnValue, failMessage, appInstance,
             window, hostPresetPath, fileChooser, disk, guiCalls, clicks>>

GuiInit ==
  /\ appPc = "initialise"
  /\ tokens = <<>>
  /\ parsed = GuiArgs
  /\ returnValue = 0
  /\ failMessage = ""
  /\ appInstance = NoInstance
  /\ window = FALSE
  /\ hostPresetPath = NoFile
  /\ fileChooser = FALSE
  /\ disk = DiskAtStart
  /\ guiCalls = <<>>
  /\ clicks = 0

(* ------------------------------------------------------ renderer state *)
vars == <<pc, exitCode, destroyed, argv, args, reader, totalSamples, manifest,
          slots, slotIdx, instances, calls, warnings, checks, position, block,
          j, buffer, output, writer, outFile, guiVars>>

NoWriter == [open |-> FALSE, sampleRate |-> 0, numChannels |-> 0, bits |-> 0,
             format |-> <<>>]
\* frames of the AudioBuffer that hold the same kind of content: n frames
\* that are undefined, zero, or samples of the input read at pos, and the
\* instances that have processed them
Run(n, kind, pos, by) == [n |-> n, kind |-> kind, pos |-> pos, by |-> by]

\* no buffer yet: the segment read (pos, len), the instances that processed
\* it, the number of frames, their content, and the numbers of frames the
\* instances were handed
EmptyBuffer == [pos |-> -1, len |-> 0, by |-> <<>>, size |-> 0,
                runs |-> <<>>, handed |-> <<>>]

\* line 323: AudioBuffer(numChannels, blockSize) leaves its frames undefined
allocateBuffer(size) ==
  [EmptyBuffer EXCEPT !.size = size,
                      !.runs = <<Run(size, "undefined", -1, <<>>)>>]

\* the content without its first n frames
RECURSIVE dropFrames(_, _)
dropFrames(runs, n) ==
  IF n <= 0 \/ runs = <<>> THEN runs
  ELSE IF Head(runs).n <= n THEN dropFrames(Tail(runs), n - Head(runs).n)
  ELSE <<[Head(runs) EXCEPT !.n = @ - n]>> \o Tail(runs)

\* the first n frames of the content
RECURSIVE takeFrames(_, _)
takeFrames(runs, n) ==
  IF n <= 0 \/ runs = <<>> THEN <<>>
  ELSE IF Head(runs).n <= n
  THEN <<Head(runs)>> \o takeFrames(Tail(runs), n - Head(runs).n)
  ELSE <<[Head(runs) EXCEPT !.n = n]>>

clearFrames_keeps(buf) == buf.runs

\* line 330: buffer.clear() zeroes every frame
clearFrames(buf) == <<Run(buf.size, "zero", -1, <<>>)>>

\* line 331: reader->read(&buffer, 0, n, pos, ...) fills the first n frames
readFrames(runs, n, pos) ==
  IF n <= 0 THEN runs
  ELSE <<Run(n, "input", pos, <<>>)>> \o dropFrames(runs, n)

\* line 334: processBlock works on every frame of the buffer it is handed
processFrames(runs, id) ==
  [k \in 1..Len(runs) |-> [runs[k] EXCEPT !.by = Append(@, id)]]

Init ==
  /\ pc = "parseArgs"
  /\ exitCode = -1
  /\ destroyed = <<>>
  /\ argv = <<>>
  /\ args = Args
  /\ reader = NoReader
  /\ totalSamples = 0
  /\ manifest = [kind |-> "unread", plugins |-> <<>>]
  /\ slots = <<>>
  /\ slotIdx = 0
  /\ instances = <<>>
  /\ calls = <<>>
  /\ warnings = <<>>
  /\ checks = <<>>
  /\ position = 0
  /\ block = 0
  /\ j = 0
  /\ buffer = EmptyBuffer
  /\ output = <<>>
  /\ writer = NoWriter
  /\ outFile = "untouched"
  /\ GuiInit

\* the values main returns
ExitOk == 0
ExitUsage == 1
ExitNotFound == 2
ExitUnreadable == 3
ExitPlugin == 5
ExitWriter == 6

ExitManifest_asPlugin == ExitPlugin

\* line 238
ExitManifest == 4

\* a return of main with instances in the OwnedArray: its destructor
\* deletes the objects, last one first
deleteAllObjects(list) ==
  [k \in 1..Len(list) |-> list[Len(list) + 1 - k].id]

\* return code from main
Return(code) ==
  /\ pc' = "done"
  /\ exitCode' = code
  /\ destroyed' = deleteAllObjects(instances)

Check(name, ok) == checks' = Append(checks, <<name, ok>>)

(* ------------------------------------------------------ main: the checks *)
\* lines 200-205
ParseArgs ==
  /\ pc = "parseArgs"
  /\ \E commandLine \in ArgvChoices :
       LET r == parseArgs(commandLine)
       IN /\ argv' = commandLine
          /\ Check("args", r.ok)
          /\ IF r.ok
             THEN /\ args' = r.args
                  /\ pc' = "checkInput"
                  /\ UNCHANGED <<exitCode, destroyed>>
             ELSE /\ Return(ExitUsage)
                  /\ UNCHANGED args
  /\ UNCHANGED <<reader, totalSamples, manifest, slots, slotIdx, instances,
                 calls, warnings, position, block, j, buffer, output, writer,
                 outFile>>
  /\ UNCHANGED guiVars

\* lines 207-215
CheckInput ==
  /\ pc = "checkInput"
  /\ \E exists \in BOOLEAN :
       /\ Check("input", exists)
       /\ IF exists THEN pc' = "checkChain" /\ UNCHANGED <<exitCode, destroyed>>
          ELSE Return(ExitNotFound)
  /\ calls' = Append(calls, Ev("existsAsFile:input", 0, 0))
  /\ UNCHANGED <<argv, args, reader, totalSamples, manifest, slots, slotIdx,
                 instances, warnings, position, block, j, buffer, output,
                 writer, outFile>>
  /\ UNCHANGED guiVars

\* lines 217-221
CheckChain ==
  /\ pc = "checkChain"
  /\ \E exists \in BOOLEAN :
       /\ Check("chain", exists)
       /\ IF exists THEN pc' = "createReader" /\ UNCHANGED <<exitCode, destroyed>>
          ELSE Return(ExitNotFound)
  /\ calls' = Append(calls, Ev("existsAsFile:chain", 0, 0))
  /\ UNCHANGED <<argv, args, reader, totalSamples, manifest, slots, slotIdx,
                 instances, warnings, position, block, j, buffer, output,
                 writer, outFile>>
  /\ UNCHANGED guiVars

\* lines 223-231
CreateReader ==
  /\ pc = "createReader"
  /\ \E r \in ReaderChoices \cup {NoReader} :
       /\ reader' = r
       /\ Check("reader", r.open)
       /\ IF r.open THEN pc' = "loadChain" /\ UNCHANGED <<exitCode, destroyed>>
          ELSE Return(ExitUnreadable)
  /\ calls' = Append(calls, Ev("createReaderFor", 0, 0))
  /\ UNCHANGED <<argv, args, totalSamples, manifest, slots, slotIdx, instances,
                 warnings, position, block, j, buffer, output, writer, outFile>>
  /\ UNCHANGED guiVars

\* lines 233-239
LoadChainFrom(chainFiles) ==
  /\ \E data \in chainFiles :
       LET r == loadChain(args.chain, data)
       IN /\ manifest' = data
          /\ slots' = r.slots
          /\ Check("manifest", r.ok)
          /\ IF r.ok
             THEN pc' = "loadLoop" /\ slotIdx' = 1 /\ UNCHANGED <<exitCode, destroyed>>
             ELSE Return(ExitManifest) /\ UNCHANGED slotIdx
  /\ calls' = Append(calls, Ev("loadFileAsString", 0, 0))
  /\ UNCHANGED <<argv, args, reader, totalSamples, instances, warnings, position,
                 block, j, buffer, output, writer, outFile>>
  /\ UNCHANGED guiVars

\* lines 232-239, for the manifests of the model
LoadChain ==
  /\ pc = "loadChain"
  /\ LoadChainFrom(Manifests)

(* ------------------------------------------- main: the instantiation loop *)
skipsSlot_never(slot) == FALSE

\* line 261: the slot is left out of the chain
skipsSlot(slot) == slot.bypass

loadSucceeded_always(r) == TRUE

\* line 273: loadPlugin returned an instance
loadSucceeded(r) == r.ok

addInstance_front(list, instance) == <<instance>> \o list

\* line 285: instances.add
addInstance(list, instance) == Append(list, instance)

slotCalls_presetFirst(loadCalls, presetCalls) ==
  presetCalls \o loadCalls \o <<Ev("add", 0, 0)>>

\* lines 265-285: the calls made for one slot, in the order main makes them
slotCalls(loadCalls, presetCalls) ==
  loadCalls \o presetCalls \o <<Ev("add", 0, 0)>>

\* lines 259-262
SkipBypassed ==
  /\ pc = "loadLoop"
  /\ slotIdx <= Len(slots)
  /\ skipsSlot(slots[slotIdx])
  /\ slotIdx' = slotIdx + 1
  /\ UNCHANGED <<pc, exitCode, destroyed, argv, args, reader, totalSamples, manifest, slots,
                 instances, calls, warnings, checks, position, block, j,
                 buffer, output, writer, outFile>>
  /\ UNCHANGED guiVars

loadSlot(slot, idx) ==
  loadPlugin(slot.pluginPath, reader.sampleRate, args.blockSize,
             reader.numChannels, idx)

\* lines 263-279, loadPlugin returned null
LoadSlotFails ==
  /\ pc = "loadLoop"
  /\ slotIdx <= Len(slots)
  /\ ~skipsSlot(slots[slotIdx])
  /\ LET r == loadSlot(slots[slotIdx], slotIdx)
     IN /\ ~loadSucceeded(r)
        /\ calls' = calls \o tag(r.calls, slotIdx)
  /\ Check("plugin", FALSE)
  /\ Return(ExitPlugin)
  /\ UNCHANGED <<argv, args, reader, totalSamples, manifest, slots, slotIdx,
                 instances, warnings, position, block, j, buffer, output,
                 writer, outFile>>
  /\ UNCHANGED guiVars

\* lines 263-285, loadPlugin returned an instance
LoadSlot ==
  /\ pc = "loadLoop"
  /\ slotIdx <= Len(slots)
  /\ ~skipsSlot(slots[slotIdx])
  /\ LET slot == slots[slotIdx]
         r == loadSlot(slot, slotIdx)
         p == IF isNotEmpty(slot.presetPath)
              THEN applyPreset(r.instance, slot.presetPath)
              ELSE [ok |-> TRUE, instance |-> r.instance, calls |-> <<>>]
     IN /\ loadSucceeded(r)
        /\ warnings' = IF p.ok THEN warnings ELSE Append(warnings, slotIdx)
        /\ instances' = addInstance(instances, p.instance)
        /\ calls' = calls \o tag(slotCalls(r.calls, p.calls), slotIdx)
  /\ Check("plugin", TRUE)
  /\ slotIdx' = slotIdx + 1
  /\ UNCHANGED <<pc, exitCode, destroyed, argv, args, reader, totalSamples, manifest, slots,
                 position, block, j, buffer, output, writer, outFile>>
  /\ UNCHANGED guiVars

(* ------------------------------------------------------- main: the output *)
\* lines 288-297
OpenOutputWith(lengths) ==
  /\ \E total \in lengths : totalSamples' = total
  /\ \E created \in BOOLEAN :
       /\ Check("stream", created)
       /\ outFile' = IF created THEN "created" ELSE outFile
       /\ IF created THEN pc' = "findFormat" /\ UNCHANGED <<exitCode, destroyed>>
          ELSE Return(ExitWriter)
  /\ calls' = calls \o <<Ev("createDirectory", 0, 0),
                         Ev("createOutputStream", 0, 0)>>
  /\ UNCHANGED <<argv, args, reader, manifest, slots, slotIdx, instances, warnings,
                 position, block, j, buffer, output, writer>>
  /\ UNCHANGED guiVars

\* lines 288-297, for the input lengths of the model
OpenOutput ==
  /\ pc = "loadLoop"
  /\ slotIdx > Len(slots)
  /\ OpenOutputWith(FrameCounts)

toLowerCaseChar(c) ==
  CASE c = "W" -> "w" [] c = "A" -> "a" [] c = "V" -> "v" [] c = "X" -> "x"
    [] OTHER -> c
toLowerCase(s) == [k \in 1..Len(s) |-> toLowerCaseChar(s[k])]

\* File::getFileExtension: from the last dot of the file name, dot included
getFileExtension(p) ==
  LET dot == lastIndexOf(p, ".")
  IN IF dot = 0 \/ dot < lastIndexOf(p, "/") THEN <<>>
     ELSE SubSeq(p, dot, Len(p))

findFormatForFileExtension(ext) ==
  IF ext \in BasicFormats THEN ext ELSE <<>>

outputFormatFor_noFallback(outputFile) ==
  LET e == toLowerCase(getFileExtension(outputFile))
      ext == IF startsWithChar(e, ".") THEN substring(e, 1, Len(e)) ELSE e
  IN findFormatForFileExtension(ext)

\* lines 299-304
outputFormatFor(outputFile) ==
  LET e == toLowerCase(getFileExtension(outputFile))
      ext == IF startsWithChar(e, ".") THEN substring(e, 1, Len(e)) ELSE e
      byExt == findFormatForFileExtension(ext)
  IN IF byExt = <<>> THEN findFormatForFileExtension(Str_wav) ELSE byExt

\* lines 299-319
CreateWriter ==
  /\ pc = "findFormat"
  /\ LET outputFormat == outputFormatFor(args.output)
     IN IF outputFormat = <<>>
        THEN /\ Check("format", FALSE)
             /\ Return(ExitWriter)
             /\ UNCHANGED <<writer, calls, position, buffer>>
        ELSE \E created \in BOOLEAN :
               /\ checks' = checks \o <<<<"format", TRUE>>, <<"writer", created>>>>
               /\ calls' = Append(calls, Ev("createWriterFor", 0, 0))
               /\ IF created
                  THEN /\ writer' = [open |-> TRUE,
                                     sampleRate |-> reader.sampleRate,
                                     numChannels |-> reader.numChannels,
                                     bits |-> 16, format |-> outputFormat]
                       /\ buffer' = allocateBuffer(args.blockSize)
                       /\ position' = 0
                       /\ pc' = "render"
                       /\ UNCHANGED <<exitCode, destroyed>>
                  ELSE /\ Return(ExitWriter)
                       /\ UNCHANGED <<writer, position, buffer>>
  /\ UNCHANGED <<argv, args, reader, totalSamples, manifest, slots, slotIdx,
                 instances, warnings, block, j, output, outFile>>
  /\ UNCHANGED guiVars

(* -------------------------------------------------- main: the render loop *)
segmentLength_whole(blockSize, total, pos) == blockSize

\* line 329
segmentLength(blockSize, total, pos) == jmin(blockSize, total - pos)

renderBeginCalls_readFirst(pos) ==
  <<Ev("read", 0, pos), Ev("clear", 0, pos), Ev("midi.clear", 0, pos)>>

\* lines 330-332
renderBeginCalls(pos) ==
  <<Ev("clear", 0, pos), Ev("read", 0, pos), Ev("midi.clear", 0, pos)>>

advance_whole(pos, len) == pos + args.blockSize

\* line 336
advance(pos, len) == pos + len

renderContinues_orEqual(pos, total) == pos <= total

\* line 327: the condition of the while loop
renderContinues(pos, total) == pos < total

\* lines 327-332
RenderBegin ==
  /\ pc = "render"
  /\ renderContinues(position, totalSamples)
  /\ LET b == segmentLength(args.blockSize, totalSamples, position)
     IN /\ block' = b
        /\ buffer' = [pos |-> position, len |-> b, by |-> <<>>,
                      size |-> buffer.size,
                      runs |-> readFrames(clearFrames(buffer), b, position),
                      handed |-> <<>>]
  /\ calls' = calls \o renderBeginCalls(position)
  /\ j' = 1
  /\ pc' = "process"
  /\ UNCHANGED <<exitCode, destroyed, argv, args, reader, totalSamples, manifest, slots,
                 slotIdx, instances, warnings, checks, position, output,
                 writer, outFile>>
  /\ UNCHANGED guiVars

\* lines 333-334
ProcessBlock ==
  /\ pc = "process"
  /\ j <= Len(instances)
  /\ buffer' = [buffer EXCEPT !.by = Append(@, instances[j].id),
                              !.runs = processFrames(@, instances[j].id),
                              !.handed = Append(@, buffer.size)]
  /\ calls' = Append(calls, Ev("processBlock", instances[j].id, position))
  /\ j' = j + 1
  /\ UNCHANGED <<pc, exitCode, destroyed, argv, args, reader, totalSamples, manifest, slots,
                 slotIdx, instances, warnings, checks, position, block,
                 output, writer, outFile>>
  /\ UNCHANGED guiVars

\* lines 335-336
WriteSegment ==
  /\ pc = "process"
  /\ j > Len(instances)
  /\ output' = Append(output, [pos |-> buffer.pos, len |-> block,
                               by |-> buffer.by,
                               frames |-> takeFrames(buffer.runs, block)])
  /\ calls' = Append(calls, Ev("writeFromAudioSampleBuffer", 0, position))
  /\ position' = advance(position, block)
  /\ outFile' = "written"
  /\ pc' = "render"
  /\ UNCHANGED <<exitCode, destroyed, argv, args, reader, totalSamples, manifest, slots,
                 slotIdx, instances, warnings, checks, block, j, buffer,
                 writer>>
  /\ UNCHANGED guiVars

\* lines 327 and 339
RenderEnd ==
  /\ pc = "render"
  /\ ~renderContinues(position, totalSamples)
  /\ Return(ExitOk)
  /\ UNCHANGED <<argv, args, reader, totalSamples, manifest, slots, slotIdx,
                 instances, calls, warnings, checks, position, block, j,
                 buffer, output, writer, outFile>>
  /\ UNCHANGED guiVars

Next ==
  \/ ParseArgs
  \/ CheckInput
  \/ CheckChain
  \/ CreateReader
  \/ LoadChain
  \/ SkipBypassed
  \/ LoadSlotFails
  \/ LoadSlot
  \/ OpenOutput
  \/ CreateWriter
  \/ RenderBegin
  \/ ProcessBlock
  \/ WriteSegment
  \/ RenderEnd

Spec == Init /\ [][Next]_vars

(* ============================================ actions of the window host *)
\* longest run of button presses and parameter changes of one session
MaxClicks == 2

rendererVars == <<pc, exitCode, destroyed, argv, args, reader, totalSamples,
                  manifest, slots, slotIdx, instances, calls, warnings,
                  checks, position, block, j, buffer, output, writer,
                  outFile>>

\* the values given to setApplicationReturnValue
GuiExitUsage == 2
GuiExitNotFound == 3
GuiExitPlugin == 4

\* fail(message, code): the code is set and a message box is shown
fail(message, code) ==
  /\ returnValue' = code
  /\ failMessage' = message
  /\ appPc' = "failed"

\* initialise, lines 225-268
Initialise ==
  /\ appPc = "initialise"
  /\ \E commandLine \in GuiArgvChoices :
       LET r == guiParseArgs(commandLine)
           file == r.args.pluginPath
           exists == gEv("exists", file, IF fileExists(file) THEN 1 ELSE 0)
           loaded == guiLoadPlugin(file, GuiSampleRate, r.args.blockSize)
           preset == r.args.presetPath
           hasPreset == presetFile(preset) # "missing"
           applied == guiApplyPreset(loaded.instance, preset)
       IN /\ tokens' = commandLine
          /\ parsed' = r.args
          /\ IF ~r.ok
             THEN /\ fail("Invalid arguments.", GuiExitUsage)
                  /\ UNCHANGED <<appInstance, window, hostPresetPath,
                                 guiCalls>>
             ELSE IF ~fileExists(file)
             THEN /\ fail("Plugin file not found.", GuiExitNotFound)
                  /\ guiCalls' = <<exists>>
                  /\ UNCHANGED <<appInstance, window, hostPresetPath>>
             ELSE IF ~loaded.ok
             THEN /\ fail(IF loaded.error # "" THEN loaded.error
                          ELSE "Failed to load plugin.", GuiExitPlugin)
                  /\ guiCalls' = <<exists>> \o loaded.calls
                  /\ UNCHANGED <<appInstance, window, hostPresetPath>>
             ELSE /\ appInstance' = IF hasPreset THEN applied.instance
                                    ELSE loaded.instance
                  /\ guiCalls' = <<exists>> \o loaded.calls
                       \o <<gEv("existsAsFile", preset,
                                IF hasPreset THEN 1 ELSE 0)>>
                       \o (IF hasPreset THEN applied.calls ELSE <<>>)
                  /\ hostPresetPath' = r.args.savePath
                  /\ window' = TRUE
                  /\ appPc' = "running"
                  /\ UNCHANGED <<returnValue, failMessage>>
  /\ UNCHANGED <<fileChooser, disk, clicks>>
  /\ UNCHANGED rendererVars

\* the user changes a parameter of the plugin in its editor
EditParameter ==
  /\ appPc = "running"
  /\ clicks < MaxClicks
  /\ clicks' = clicks + 1
  /\ appInstance' = [appInstance EXCEPT !.state = Append(@, "*")]
  /\ guiCalls' = Append(guiCalls, gEv("setParameter", NoFile, 0))
  /\ UNCHANGED <<appPc, tokens, parsed, returnValue, failMessage, window,
                 hostPresetPath, fileChooser, disk>>
  /\ UNCHANGED rendererVars

\* a handler of HostComponent has run after the user event ev
handlerDone(ev, h) ==
  /\ hostPresetPath' = h.presetPath
  /\ fileChooser' = h.fileChooser
  /\ disk' = h.files
  /\ guiCalls' = Append(guiCalls, ev) \o h.calls
  /\ UNCHANGED <<appPc, tokens, parsed, returnValue, failMessage,
                 appInstance, window>>
  /\ UNCHANGED rendererVars

\* saveButton.onClick, line 125
ClickSave ==
  /\ appPc = "running"
  /\ clicks < MaxClicks
  /\ clicks' = clicks + 1
  /\ \E written \in BOOLEAN :
       handlerDone(gEv("saveButton.onClick", NoFile, 0),
                   handleSave(appInstance, hostPresetPath, fileChooser, disk,
                              written))

\* saveAsButton.onClick, line 126
ClickSaveAs ==
  /\ appPc = "running"
  /\ clicks < MaxClicks
  /\ clicks' = clicks + 1
  /\ handlerDone(gEv("saveAsButton.onClick", NoFile, 0),
                 handleSaveAs(hostPresetPath, disk))

\* the user closes the chooser, with a file or without one: lines 180-189
ChooserResult ==
  /\ appPc = "running"
  /\ fileChooser
  /\ \E result \in {NoFile} \cup SaveTargets, written \in BOOLEAN :
       handlerDone(gEv("chooserCallback", result, 0),
                   chooserCallback(appInstance, hostPresetPath, disk, result,
                                   written))
  /\ UNCHANGED clicks

\* closeButtonPressed: systemRequestedQuit asks the application to quit
CloseButtonPressed ==
  /\ appPc = "running"
  /\ appPc' = "quitting"
  /\ guiCalls' = Append(guiCalls, gEv("closeButtonPressed", NoFile, 0))
  /\ UNCHANGED <<tokens, parsed, returnValue, failMessage, appInstance,
                 window, hostPresetPath, fileChooser, disk, clicks>>
  /\ UNCHANGED rendererVars

\* the message box of fail() is dismissed: its callback calls quit()
DismissMessage ==
  /\ appPc = "failed"
  /\ appPc' = "quitting"
  /\ guiCalls' = Append(guiCalls, gEv("quit", NoFile, 0))
  /\ UNCHANGED <<tokens, parsed, returnValue, failMessage, appInstance,
                 window, hostPresetPath, fileChooser, disk, clicks>>
  /\ UNCHANGED rendererVars

\* what shutdown does with the instance
shutdownCalls_noRelease(inst) ==
  IF inst.id = 0 THEN <<>>
  ELSE <<gEv("delete", NoFile, inst.id)>>

shutdownCalls(inst) ==
  IF inst.id = 0 THEN <<>>
  ELSE <<gEv("releaseResources", NoFile, inst.id),
         gEv("delete", NoFile, inst.id)>>

\* shutdown, lines 270-278: the window goes, and its component and chooser
\* with it, then the instance
Shutdown ==
  /\ appPc = "quitting"
  /\ appPc' = "stopped"
  /\ window' = FALSE
  /\ fileChooser' = FALSE
  /\ guiCalls' = Append(guiCalls, gEv("shutdown", NoFile, 0))
                   \o shutdownCalls(appInstance)
  /\ appInstance' = NoInstance
  /\ UNCHANGED <<tokens, parsed, returnValue, failMessage, hostPresetPath,
                 disk, clicks>>
  /\ UNCHANGED rendererVars

GuiNext ==
  \/ Initialise
  \/ EditParameter
  \/ ClickSave
  \/ ClickSaveAs
  \/ ChooserResult
  \/ CloseButtonPressed
  \/ DismissMessage
  \/ Shutdown

SpecGui == Init /\ [][GuiNext]_vars

(* ---------------------------------------------------------- properties *)
\* indices of the slots that are not bypassed, in declaration order
RECURSIVE nonBypassedFrom(_)
nonBypassedFrom(k) ==
  IF k > Len(slots) THEN <<>>
  ELSE IF slots[k].bypass THEN nonBypassedFrom(k + 1)
  ELSE <<k>> \o nonBypassedFrom(k + 1)
NonBypassed == nonBypassedFrom(1)

instanceIds == [k \in 1..Len(instances) |-> instances[k].id]

\* the instantiation loop has run to its end
ChainLoaded ==
  \/ pc = "loadLoop" /\ slotIdx > Len(slots)
  \/ pc \in {"findFormat", "render", "process"}
  \/ pc = "done" /\ exitCode \in {0, 6}

CallsWhere(Test(_)) == SelectSeq(calls, Test)
whoOf(es) == [k \in 1..Len(es) |-> es[k].who]

\* instances whose processBlock was called for the segment at pos, in order
processedAt(pos) ==
  LET Test(e) == e.op = "processBlock" /\ e.n = pos
  IN whoOf(CallsWhere(Test))

createCalls ==
  LET Test(e) == e.op = "createPluginInstance" IN CallsWhere(Test)

\* C1: once every non-bypassed slot of the resolved list has loaded, there
\* are exactly as many instances as non-bypassed slots, the i-th instance
\* of the live list is the one created for the i-th non-bypassed slot, and
\* in every rendered segment processBlock was called on them in that order.
C1_ChainOrder ==
  ChainLoaded =>
    /\ Len(instances) = Len(NonBypassed)
    /\ Len(createCalls) = Len(NonBypassed)
    /\ instanceIds = NonBypassed
    /\ \A k \in 1..Len(output) :
         /\ processedAt(output[k].pos) = NonBypassed
         /\ output[k].by = NonBypassed

C1_Witness ==
  /\ pc = "done" /\ exitCode = 0
  /\ Len(NonBypassed) >= 2
  /\ Len(createCalls) = Len(NonBypassed)
  /\ Len(output) >= 2

callsOfSlot(s) == LET Test(e) == e.who = s IN CallsWhere(Test)

\* C2: a bypassed slot causes no call at all (no type resolution, no
\* instantiation, no preset loading, no processBlock), owns no instance of
\* the live list, and is never the slot a plugin-load failure (exit code 5)
\* stops at, whatever its plugin path is.
C2_BypassedUntouched ==
  \A s \in 1..Len(slots) :
    slots[s].bypass =>
      /\ callsOfSlot(s) = <<>>
      /\ \A k \in 1..Len(instances) : instances[k].id # s
      /\ \A k \in 1..Len(output) : \A i \in 1..Len(output[k].by) :
           output[k].by[i] # s
      /\ (pc = "process" =>
            \A i \in 1..Len(buffer.by) : buffer.by[i] # s)
      /\ (exitCode = 5 => slotIdx # s)

\* a run that rendered although a bypassed slot names a file that is no plugin
C2_Witness ==
  /\ pc = "done" /\ exitCode = 0 /\ Len(output) >= 1
  /\ Len(instances) >= 1
  /\ \E s \in 1..Len(slots) :
       /\ slots[s].bypass
       /\ pluginFile(slots[s].pluginPath).might = <<FALSE, FALSE>>

\* an element of the "plugins" array that loadChain turns into a slot
yieldsSlot(e) == e.isObject /\ e.path # <<>>
\* ... and that is not bypassed
yieldsInstance(e) == yieldsSlot(e) /\ e.bypass # "true"

manifestHas(Test(_)) ==
  \E k \in 1..Len(manifest.plugins) : Test(manifest.plugins[k])

resolutionCalls ==
  LET Test(e) == e.op \in {"fileMightContainThisPluginType",
                            "findAllTypesForFile", "createPluginInstance"}
  IN CallsWhere(Test)

NothingInstantiated == resolutionCalls = <<>> /\ instances = <<>>
NothingRendered ==
  /\ output = <<>> /\ outFile = "untouched" /\ ~writer.open
  /\ \A k \in 1..Len(calls) : calls[k].op # "read"

\* C3 as stated: a plugin list that is empty or leaves no slot to
\* instantiate, a list of bypassed slots included, ends the run with exit
\* code 4 without instantiation and without rendering.
C3_Original ==
  (pc = "done" /\ manifest.kind = "array" /\ ~manifestHas(yieldsInstance)) =>
    /\ exitCode = 4
    /\ NothingInstantiated
    /\ NothingRendered

\* C3 amended: exit code 4, without instantiation and without rendering,
\* when the plugin list is empty or no element is an object with a
\* non-empty path; when elements yield slots and all of them are bypassed
\* the run is no manifest error: nothing is instantiated, the output is
\* created and the input is rendered through an empty chain.
C3_Amended ==
  manifest.kind = "array" =>
    /\ ~manifestHas(yieldsSlot) =>
         /\ pc = "done" /\ exitCode = 4
         /\ NothingInstantiated
         /\ NothingRendered
    /\ (manifestHas(yieldsSlot) /\ ~manifestHas(yieldsInstance)) =>
         /\ exitCode \in {-1, 0, 6}
         /\ NothingInstantiated
         /\ \A k \in 1..Len(output) : output[k].by = <<>>
         /\ (pc = "done" /\ exitCode = 0 /\ totalSamples > 0 => output # <<>>)

C3_Witness ==
  /\ pc = "done" /\ exitCode = 4
  /\ manifest.kind = "array"
  /\ Len(manifest.plugins) >= 2
  /\ \E k \in 1..Len(manifest.plugins) : manifest.plugins[k].isObject

ceilDiv(a, b) == (a + b - 1) \div b

\* C4: a finished render loop has processed ceil(totalFrames / B) segments;
\* every segment but the last has length B and the last one has length
\* totalFrames mod B when that is not zero, B otherwise.
C4_SegmentLengths ==
  (pc = "done" /\ exitCode = 0) =>
    LET B == args.blockSize
        n == Len(output)
    IN /\ n = ceilDiv(totalSamples, B)
       /\ \A k \in 1..(n - 1) : output[k].len = B
       /\ n > 0 => output[n].len = IF totalSamples % B # 0
                                   THEN totalSamples % B ELSE B

C4_Witness ==
  /\ pc = "done" /\ exitCode = 0
  /\ Len(output) = 3
  /\ output[3].len = 1

RECURSIVE framesIn(_)
framesIn(segs) ==
  IF Len(segs) = 0 THEN 0 ELSE Head(segs).len + framesIn(Tail(segs))

Rendering == pc \in {"render", "process"} \/ (pc = "done" /\ exitCode = 0)

\* C5: while rendering, the frames appended to the output equal the stream
\* position and do not exceed the input's frame count; a run that returns 0
\* has appended exactly the input's frame count; the writer has the input's
\* channel count and sample rate.
C5_FramesWritten ==
  /\ framesIn(output) <= totalSamples
  /\ Rendering =>
       /\ framesIn(output) = position
       /\ position <= totalSamples
       /\ writer.open
       /\ writer.numChannels = reader.numChannels
       /\ writer.sampleRate = reader.sampleRate
  /\ (pc = "done" /\ exitCode = 0) => framesIn(output) = totalSamples

C5_Witness ==
  /\ pc = "done" /\ exitCode = 0
  /\ framesIn(output) = totalSamples
  /\ totalSamples > args.blockSize
  /\ totalSamples % args.blockSize # 0
  /\ writer.numChannels = 2

IsPrefix(a, b) == Len(a) <= Len(b) /\ a = SubSeq(b, 1, Len(a))

renderCalls ==
  LET Test(e) == e.op \in {"clear", "read", "midi.clear", "processBlock",
                            "writeFromAudioSampleBuffer"}
  IN CallsWhere(Test)

\* what strictly sequential rendering of the segment at pos calls
sequentialSegment(pos) ==
  <<Ev("clear", 0, pos), Ev("read", 0, pos), Ev("midi.clear", 0, pos)>>
  \o [k \in 1..Len(NonBypassed) |-> Ev("processBlock", NonBypassed[k], pos)]
  \o <<Ev("writeFromAudioSampleBuffer", 0, pos)>>

RECURSIVE sequentialFrom(_)
sequentialFrom(pos) ==
  IF pos >= totalSamples THEN <<>>
  ELSE sequentialSegment(pos) \o sequentialFrom(pos + args.blockSize)

\* C6: the calls of the render loop are, segment after segment in stream
\* order: clear, read at the position, every instance in chain order, write;
\* a written segment is the one read at its position, processed in place by
\* the whole chain in order.
C6_Sequential ==
  /\ ~Rendering => renderCalls = <<>>
  /\ Rendering =>
       /\ IsPrefix(renderCalls, sequentialFrom(0))
       /\ pc = "done" => renderCalls = sequentialFrom(0)
       /\ pc = "process" =>
            /\ buffer.pos = position
            /\ buffer.by = SubSeq(NonBypassed, 1, j - 1)
       /\ \A k \in 1..Len(output) :
            /\ output[k].pos = (k - 1) * args.blockSize
            /\ output[k].by = instanceIds

C6_Witness ==
  /\ pc = "process"
  /\ Len(output) >= 1
  /\ Len(instances) >= 2
  /\ j = Len(instances)

\* the backends find no type in the file, or its first type does not
\* instantiate
failsToLoad(path) ==
  LET f == pluginFile(path)
  IN \/ \A fmt \in 1..Len(Formats) : ~f.might[fmt] \/ f.types[fmt] = 0
     \/ ~f.creatable

OutputUntouched ==
  /\ output = <<>> /\ outFile = "untouched" /\ ~writer.open
  /\ \A k \in 1..Len(calls) :
       calls[k].op \notin {"createDirectory", "createOutputStream",
                           "createWriterFor", "processBlock"}

\* C7: when a non-bypassed slot's plugin does not load, the run ends with
\* exit code 5 at that slot: no later slot is touched, no instance ever
\* processes a block and the output file is neither created nor written.
C7_NoPartialChain ==
  /\ \A s \in 1..Len(slots) :
       (~slots[s].bypass /\ failsToLoad(slots[s].pluginPath)) =>
         /\ exitCode \in {-1, 5}
         /\ pc = "done" => exitCode = 5
         /\ slotIdx <= s
         /\ \A k \in 1..Len(calls) : calls[k].who <= s
         /\ \A k \in 1..Len(instances) : instances[k].id < s
         /\ OutputUntouched
  /\ exitCode = 5 =>
       /\ slotIdx \in 1..Len(slots)
       /\ ~slots[slotIdx].bypass
       /\ failsToLoad(slots[slotIdx].pluginPath)
       /\ calls[Len(calls)].who = slotIdx

\* a chain that had an instance when a later slot failed
C7_Witness ==
  /\ pc = "done" /\ exitCode = 5
  /\ Len(instances) >= 1
  /\ slotIdx > instances[Len(instances)].id

presetCallsOf(s) ==
  LET Test(e) == e.who = s /\ e.op \in {"existsAsFile", "loadFileAsData",
                                         "setStateInformation"}
  IN CallsWhere(Test)

stateRestoresOf(s) ==
  LET Test(e) == e.who = s /\ e.op = "setStateInformation"
  IN CallsWhere(Test)

warningsFor(s) == LET Test(w) == w = s IN Len(SelectSeq(warnings, Test))

\* C8: an instance whose slot names a preset file that is missing or not
\* readable keeps its default state, has had no state restore, has caused
\* one warning and stands in the live chain at its position; a slot without
\* a preset path causes neither a restore nor a warning; the run goes on.
C8_PresetFailure ==
  /\ \A k \in 1..Len(instances) :
       LET s == instances[k].id
           presetPath == slots[s].presetPath
       IN /\ (presetPath # <<>> /\ presetFile(presetPath) # "readable") =>
               /\ instances[k].state = <<>>
               /\ stateRestoresOf(s) = <<>>
               /\ warningsFor(s) = 1
               /\ NonBypassed[k] = s
          /\ presetPath = <<>> =>
               /\ instances[k].state = <<>>
               /\ presetCallsOf(s) = <<>>
               /\ warningsFor(s) = 0
  /\ \A w \in 1..Len(warnings) :
       /\ \E k \in 1..Len(instances) : instances[k].id = warnings[w]
       /\ presetFile(slots[warnings[w]].presetPath) # "readable"
  /\ (warnings # <<>> /\ exitCode = 5) =>
       \A w \in 1..Len(warnings) : warnings[w] < slotIdx

\* a run that returned 0 after a missing and an unreadable preset
C8_Witness ==
  /\ pc = "done" /\ exitCode = 0 /\ Len(output) >= 1
  /\ \E a, b \in 1..Len(instances) :
       /\ presetFile(slots[instances[a].id].presetPath) = "missing"
       /\ slots[instances[a].id].presetPath # <<>>
       /\ presetFile(slots[instances[b].id].presetPath) = "unreadable"
       /\ warningsFor(instances[a].id) = 1
       /\ warningsFor(instances[b].id) = 1

IsRenderOp(e) ==
  e.op \in {"clear", "read", "midi.clear", "processBlock",
            "writeFromAudioSampleBuffer"}
IsSetupOp(e) == ~IsRenderOp(e)

lifecycleOf(s) ==
  LET Test(e) == e.who = s /\ e.op \in {"prepareToPlay", "reset",
                                         "setStateInformation"}
      es == CallsWhere(Test)
  IN [k \in 1..Len(es) |-> es[k].op]

\* C9: every call of the set-up of the chain (type resolution,
\* instantiation, preset application, for all slots) precedes the first
\* call of the render loop; an instance's state is restored at most once,
\* after its prepareToPlay and reset.
C9_RestoreBeforeProcess ==
  /\ calls = SelectSeq(calls, IsSetupOp) \o SelectSeq(calls, IsRenderOp)
  /\ SelectSeq(calls, IsRenderOp) # <<>> => ChainLoaded
  /\ \A s \in 1..Len(slots) :
       IsPrefix(lifecycleOf(s),
                <<"prepareToPlay", "reset", "setStateInformation">>)
  /\ \A k \in 1..Len(instances) :
       LET s == instances[k].id
       IN /\ Len(lifecycleOf(s)) >= 2
          /\ instances[k].state # <<>> <=> Len(lifecycleOf(s)) = 3

C9_Witness ==
  /\ pc = "process" /\ j > 1
  /\ \E k \in 1..Len(instances) :
       /\ instances[k].state = Preset_p
       /\ Len(stateRestoresOf(instances[k].id)) = 1

checkRank(name) ==
  CASE name = "args" -> 1 [] name = "input" -> 2 [] name = "chain" -> 3
    [] name = "reader" -> 4 [] name = "manifest" -> 5 [] name = "plugin" -> 6
    [] name = "stream" -> 7 [] name = "format" -> 8 [] name = "writer" -> 9

checkCode(name) ==
  CASE name = "args" -> 1 [] name = "input" -> 2 [] name = "chain" -> 2
    [] name = "reader" -> 3 [] name = "manifest" -> 4 [] name = "plugin" -> 5
    [] name = "stream" -> 6 [] name = "format" -> 6 [] name = "writer" -> 6

\* C10: the checks are made in the fixed order arguments, input file,
\* manifest file, reader, manifest, plugins, output stream, format, writer;
\* the run ends at the first check that fails, with that check's code
\* (1, 2, 2, 3, 4, 5, 6, 6, 6), and with 0 only after all of them passed;
\* a run that returns 1 has touched no file.
C10_ExitCodes ==
  /\ exitCode \in -1..6
  /\ pc = "done" <=> exitCode # -1
  /\ pc # "parseArgs" => (checks # <<>> /\ checks[1][1] = "args")
  /\ \A k \in 1..(Len(checks) - 1) :
       LET a == checkRank(checks[k][1])
           b == checkRank(checks[k + 1][1])
       IN /\ checks[k][2]
          /\ \/ b = a + 1
             \/ a = 6 /\ b = 6
             \/ a = 5 /\ b = 7 /\ NonBypassed = <<>>
  /\ pc = "done" =>
       LET last == checks[Len(checks)]
       IN IF last[2] THEN last[1] = "writer" /\ exitCode = 0
          ELSE exitCode = checkCode(last[1])
  /\ (pc # "done" /\ checks # <<>>) => checks[Len(checks)][2]
  /\ exitCode = 1 =>
       /\ calls = <<>> /\ outFile = "untouched" /\ output = <<>>
       /\ ~reader.open /\ manifest.kind = "unread"

C10_Witness ==
  /\ pc = "done" /\ exitCode = 6
  /\ Len(checks) >= 9
  /\ checks[Len(checks)] = <<"writer", FALSE>>
  /\ outFile = "created"

releaseCallsOf(s) ==
  LET Test(e) == e.op = "releaseResources" /\ e.who = s
  IN CallsWhere(Test)

\* C11: when main has returned after at least one instance was created
\* (with 0, with 5 at a later slot, or with 6), releaseResources has been
\* called on every instance that was created, before the instances are
\* destroyed.
C11_ReleasedBeforeExit ==
  (pc = "done" /\ instances # <<>>) =>
    /\ Len(destroyed) = Len(instances)
    /\ \A k \in 1..Len(instances) :
         Len(releaseCallsOf(instances[k].id)) >= 1

(* -------------------------------------------------- C12: the block size *)
\* both argument parsers applied to their command lines
NextArgs ==
  \/ ParseArgs
  \/ Initialise

SpecArgs == Init /\ [][NextArgs]_vars

\* the integer each text given to --block stands for
valueOfText(text) ==
  CASE text = <<"1", "0">> -> 10
    [] text = <<"-", "5">> -> -5
    [] text = <<"7", "0">> -> 70
    [] text = <<" ", "7", "0", "k">> -> 70
    [] text = <<"0">> -> 0
    [] text = <<"x">> -> 0

\* positions of a --block that is followed by a value
blockFlags(line) ==
  { i \in 1..(Len(line) - 1) : line[i] = Str_block }

\* the block size a command line asks for
blockSizeFor(line) ==
  IF blockFlags(line) = {} THEN 512
  ELSE LET i == CHOOSE i \in blockFlags(line) :
                  \A k \in blockFlags(line) : k <= i
           v == valueOfText(line[i + 1])
       IN IF v > 64 THEN v ELSE 64

\* the command line without its --block and value
withoutBlock(line) ==
  IF blockFlags(line) = {} THEN line
  ELSE LET i == CHOOSE i \in blockFlags(line) : TRUE
       IN SubSeq(line, 1, i - 1) \o SubSeq(line, i + 2, Len(line))

\* C12: whatever value is given to --block (below 64, zero, negative, not a
\* number), the block size is the larger of 64 and the value, 512 without
\* --block, so at least 64 in the renderer and in the window host; the
\* value decides nothing about the arguments being accepted.
C12_BlockSize ==
  /\ pc # "parseArgs" =>
       /\ exitCode # ExitUsage =>
            args.blockSize = blockSizeFor(argv) /\ args.blockSize >= 64
       /\ (exitCode = ExitUsage) <=> ~parseArgs(withoutBlock(argv)).ok
  /\ appPc # "initialise" =>
       /\ returnValue # GuiExitUsage =>
            parsed.blockSize = blockSizeFor(tokens) /\ parsed.blockSize >= 64
       /\ (returnValue = GuiExitUsage)
            <=> ~guiParseArgs(withoutBlock(tokens)).ok
  /\ appInstance.id # 0 => appInstance.blockSize = parsed.blockSize

C12_Witness ==
  /\ pc = "checkInput"
  /\ blockFlags(argv) # {} /\ argv[Len(argv)] = <<"-", "5">>
  /\ args.blockSize = 64
  /\ appPc = "running"
  /\ blockFlags(tokens) # {} /\ \E i \in blockFlags(tokens) : tokens[i + 1] = <<"0">>
  /\ parsed.blockSize = 64

(* ------------------------------------------------ C13: the output format *)
\* the registered format an output file name asks for, <<>> when none
formatNamedBy(outputFile) ==
  CASE outputFile = File_outWav -> <<"w", "a", "v">>
    [] outputFile = File_outAiff -> <<"a", "i", "f", "f">>
    [] outputFile = File_outXyz -> <<>>

checkFailed(name) == \E k \in 1..Len(checks) : checks[k] = <<name, FALSE>>

\* C13: an output file whose extension names no registered format is written
\* in the wave format and the run does not fail for that; the run returns 6
\* only when the output stream or the writer cannot be created (the wave
\* format is always registered).
C13_WaveFallback ==
  /\ writer.open =>
       writer.format = IF formatNamedBy(args.output) = <<>> THEN <<"w", "a", "v">>
                       ELSE formatNamedBy(args.output)
  /\ ~checkFailed("format")
  /\ exitCode = ExitWriter <=> (checkFailed("stream") \/ checkFailed("writer"))
  /\ (pc = "done" /\ exitCode = ExitOk) => writer.open

C13_Witness ==
  /\ pc = "done" /\ exitCode = ExitOk
  /\ args.output = File_outXyz
  /\ writer.open /\ writer.format = <<"w", "a", "v">>
  /\ output # <<>>

(* -------------------------------------------------- C14: the slot list *)
\* the plugin file a "path" value of the manifest /d/m names
pluginNamedBy(path) ==
  CASE path = <<"a">> -> Plugin_a
    [] path = <<" ", "a">> -> Plugin_a
    [] path = <<"\"", "a", "\"">> -> Plugin_a
    [] path = <<"/", "d", "/", "e">> -> Plugin_e
    [] path = <<"b">> -> <<"/", "d", "/", "b">>
    [] path = <<"c">> -> Plugin_c
    [] path = <<" ">> -> <<"/", "d">>

hasPath(entry) == entry.isObject /\ entry.path # <<>>

manifestRead == manifest.kind # "unread"

\* C14: the slots are the elements of "plugins" that are objects with a
\* non-empty path, in the order of the array; elements that are no objects
\* and objects without a path are skipped without an error; bypass is false
\* unless the entry sets it; a manifest without a "plugins" array is a
\* manifest error.
C14_SlotsAreSubsequence ==
  LET named == SelectSeq(manifest.plugins, hasPath)
  IN /\ (manifestRead /\ manifest.kind # "array") =>
          (pc = "done" /\ exitCode = ExitManifest /\ slots = <<>>)
     /\ (manifestRead /\ manifest.kind = "array") =>
          /\ Len(slots) = Len(named)
          /\ \A k \in 1..Len(slots) :
               /\ slots[k].pluginPath = pluginNamedBy(named[k].path)
               /\ slots[k].bypass = (named[k].bypass = "true")
          /\ exitCode = ExitManifest <=> named = <<>>

C14_Witness ==
  /\ manifestRead /\ Len(manifest.plugins) = 2
  /\ ~manifest.plugins[1].isObject
  /\ Len(slots) = 1 /\ slots[1].pluginPath = Plugin_e /\ ~slots[1].bypass
  /\ pc = "loadLoop"

(* ------------------------------------------ C15: one stream context *)
\* C15: when rendering starts, every live instance runs with the channel
\* count and the sample rate of the stream context, whatever the plugin
\* does, a plugin that rejects the requested bus layout included.
C15_SharedContext ==
  pc \in {"render", "process", "write"} =>
    \A k \in 1..Len(instances) :
      /\ instances[k].channels = reader.numChannels
      /\ instances[k].sampleRate = reader.sampleRate
      /\ instances[k].blockSize = args.blockSize

(* ------------------------------------------ C16: saving in the window host *)
IsWrite(e) == e.op = "replaceWithData"

\* what one step of the window host added to its log
newCalls == SubSeq(guiCalls', Len(guiCalls) + 1, Len(guiCalls'))

\* C16: the window host writes the plugin state to a file only in answer to
\* Save or Save As, never when the window is closed or the application shuts
\* down.  Save with a path writes to that path; Save without a path opens
\* the chooser; a chooser closed without a file writes nothing and keeps the
\* save path; a file chosen becomes the save path, even when writing to it
\* then fails.
C16_SaveOnRequest ==
  [][ LET first == newCalls[1]
          writes == SelectSeq(newCalls, IsWrite)
          quiet == writes = <<>> /\ disk' = disk
      IN newCalls # <<>> =>
           /\ Len(writes) <= 1
           /\ ~quiet => first.op \in {"saveButton.onClick", "chooserCallback"}
           /\ first.op = "saveButton.onClick" =>
                IF hostPresetPath # NoFile
                THEN /\ Len(writes) = 1 /\ writes[1].path = hostPresetPath
                     /\ hostPresetPath' = hostPresetPath
                     /\ fileChooser' = fileChooser
                     /\ writes[1].n = 1 =>
                          disk'[hostPresetPath] = FileData(TRUE, appInstance.state)
                ELSE quiet /\ fileChooser' /\ hostPresetPath' = NoFile
           /\ first.op = "saveAsButton.onClick" =>
                quiet /\ fileChooser' /\ hostPresetPath' = hostPresetPath
           /\ first.op = "chooserCallback" =>
                /\ fileChooser /\ ~fileChooser'
                /\ IF first.path = NoFile
                   THEN quiet /\ hostPresetPath' = hostPresetPath
                   ELSE /\ hostPresetPath' = first.path
                        /\ Len(writes) = 1 /\ writes[1].path = first.path
                        /\ writes[1].n = 1 =>
                             disk'[first.path] = FileData(TRUE, appInstance.state)
                        /\ writes[1].n = 0 => disk' = disk
           /\ first.op \in {"closeButtonPressed", "shutdown", "quit",
                            "setParameter", "exists"} => quiet
    ]_vars

C16_Witness ==
  /\ appPc = "stopped"
  /\ hostPresetPath = Save_s
  /\ parsed.savePath = NoFile
  /\ disk[Save_s].exists /\ disk[Save_s].data = <<"*">>
  /\ \E k \in 1..Len(guiCalls) :
       guiCalls[k] = gEv("chooserCallback", Save_s, 0)

(* ------------------------------------- the renderer or the window host *)
\* one of the two programs is started and run
NextEither ==
  \/ appPc = "initialise" /\ Next
  \/ pc = "parseArgs" /\ GuiNext

SpecEither == Init /\ [][NextEither]_vars

(* ----------------------------------------------- C17: type resolution *)
IsResolutionOp(e) ==
  e.op \in {"fileMightContainThisPluginType", "findAllTypesForFile",
            "createPluginInstance"}

\* backends whose check accepts the file and that hold a type of it
yieldingFormats(file) ==
  { f \in 1..Len(Formats) :
      pluginFile(file).might[f] /\ pluginFile(file).types[f] > 0 }

firstYielding(file) ==
  CHOOSE f \in yieldingFormats(file) : \A g \in yieldingFormats(file) : f <= g

\* the resolution calls es made for file obey the order of the claim
resolvedInOrder(file, es) ==
  LET checksMade == { k \in 1..Len(es) :
                        es[k].op = "fileMightContainThisPluginType" }
      creates == { k \in 1..Len(es) : es[k].op = "createPluginInstance" }
  IN /\ \A k \in 1..Len(es) :
          es[k].op = "findAllTypesForFile" =>
            /\ k > 1
            /\ es[k - 1].op = "fileMightContainThisPluginType"
            /\ es[k - 1].n = es[k].n
            /\ pluginFile(file).might[es[k].n]
     /\ \A k, m \in checksMade : k < m => es[k].n < es[m].n
     /\ Cardinality(checksMade) = Len(Formats)
     /\ IF yieldingFormats(file) = {} THEN creates = {}
        ELSE /\ creates = {Len(es)}
             /\ es[Len(es)].n = firstYielding(file)

\* C17: a backend is asked to enumerate the types of a file only after its
\* compatibility check of the file has passed; the backends are asked in
\* registration order and the instance is created from the first type
\* found; when no backend yields a type the load fails with "No plugin
\* types found" and createPluginInstance is not called.
C17_TypeResolution ==
  /\ \A s \in 1..Len(slots) :
       LET file == slots[s].pluginPath
           es == SelectSeq(callsOfSlot(s), IsResolutionOp)
       IN es # <<>> =>
            /\ resolvedInOrder(file, es)
            /\ yieldingFormats(file) = {} =>
                 /\ pc = "done" /\ exitCode = ExitPlugin /\ slotIdx = s
                 /\ loadSlot(slots[s], s).error = "No plugin types found"
  /\ \A k \in 1..Len(instances) :
       instances[k].desc =
         [file |-> slots[instances[k].id].pluginPath,
          format |-> firstYielding(slots[instances[k].id].pluginPath),
          index |-> 1]
  /\ LET file == parsed.pluginPath
         es == SelectSeq(guiCalls, IsResolutionOp)
     IN es # <<>> =>
          /\ resolvedInOrder(file, es)
          /\ yieldingFormats(file) = {} =>
               /\ returnValue = GuiExitPlugin
               /\ failMessage = "No plugin types found"
               /\ appInstance = NoInstance
          /\ appInstance.id # 0 =>
               appInstance.desc = [file |-> file,
                                   format |-> firstYielding(file), index |-> 1]

C17_Witness ==
  /\ pc = "done" /\ exitCode = ExitPlugin
  /\ Len(instances) = 1 /\ instances[1].desc.format = 2
  /\ yieldingFormats(slots[slotIdx].pluginPath) = {}
  /\ SelectSeq(callsOfSlot(slotIdx), IsResolutionOp) # <<>>

(* ------------------------------------------ C18: the instance lifecycle *)
IsLifecycleOp(e) ==
  e.op \in {"createPluginInstance", "setNonRealtime", "setBusesLayout",
            "prepareToPlay", "reset", "setStateInformation", "processBlock"}

opsOf(es) == [k \in 1..Len(es) |-> es[k].op]

\* seq is the steps, then at most one state restore, then only processBlock
lifecycleThenUse(seq, steps) ==
  /\ Len(seq) >= Len(steps)
  /\ SubSeq(seq, 1, Len(steps)) = steps
  /\ \A k \in (Len(steps) + 1)..Len(seq) :
       \/ seq[k] = "processBlock"
       \/ seq[k] = "setStateInformation" /\ k = Len(steps) + 1

argOf(es, op) == LET Test(e) == e.op = op IN SelectSeq(es, Test)[1].n

\* C18: an instance of the chain has been created, marked non-real-time (by
\* the renderer; the window host never marks it), asked for the bus layout,
\* prepared with the sample rate and block size of the run, and reset, in
\* this order and once each; its state is restored and its blocks are
\* processed only after the reset.
C18_Lifecycle ==
  /\ \A k \in 1..Len(instances) :
       LET es == SelectSeq(callsOfSlot(instances[k].id), IsLifecycleOp)
       IN /\ lifecycleThenUse(opsOf(es),
               <<"createPluginInstance", "setNonRealtime", "setBusesLayout",
                 "prepareToPlay", "reset">>)
          /\ argOf(es, "setBusesLayout") = reader.numChannels
          /\ argOf(es, "prepareToPlay") = args.blockSize
          /\ instances[k].sampleRate = reader.sampleRate
          /\ instances[k].blockSize = args.blockSize
          /\ instances[k].nonRealtime /\ instances[k].prepared
  /\ appInstance.id # 0 =>
       LET es == SelectSeq(guiCalls, IsLifecycleOp)
       IN /\ lifecycleThenUse(opsOf(es),
               <<"createPluginInstance", "setBusesLayout", "prepareToPlay",
                 "reset">>)
          /\ argOf(es, "prepareToPlay") = parsed.blockSize
          /\ appInstance.sampleRate = 44100
          /\ appInstance.blockSize = parsed.blockSize
          /\ ~appInstance.nonRealtime /\ appInstance.prepared
  /\ \A k \in 1..Len(guiCalls) : guiCalls[k].op # "setNonRealtime"

C18_Witness ==
  /\ pc = "done" /\ exitCode = ExitOk
  /\ Len(instances) = 2
  /\ instances[1].state # <<>>
  /\ \E k \in 1..Len(calls) :
       calls[k].op = "processBlock" /\ calls[k].who = instances[2].id

(* ------------------------------------------------ C19: blank plugin paths *)
\* a "path" value that is empty once trimmed and unquoted
blankPaths == { <<" ">>, <<"\"", "\"">>, <<"'", " ", "'">> }

isBlank(entry) == entry.isObject /\ entry.path \in blankPaths

\* the slots that come from entries with a usable path
usableEntries ==
  LET Usable(e) == hasPath(e) /\ ~isBlank(e)
  IN SelectSeq(manifest.plugins, Usable)

\* C19: an entry whose path is empty once trimmed and unquoted (blanks only,
\* or only a pair of quotes) yields no slot; when every entry is like that
\* the manifest fails with "no valid plugin paths" (exit code 4).
C19_BlankPathDropped ==
  (manifestRead /\ manifest.kind = "array") =>
    /\ Len(slots) = Len(usableEntries)
    /\ (manifest.plugins # <<>> /\ usableEntries = <<>>) =>
         (pc = "done" /\ exitCode = ExitManifest)

(* ------------------------------------- C20: the render loop terminates *)
\* lengthInSamples is a signed 64-bit field of the reader: the lengths of
\* FrameCounts, and lengths below zero
AnyFrameCounts == {-MinBlockSize, -1} \cup FrameCounts

\* chains of no, one and two instances, and one that fails to load
RenderManifests ==
  { [kind |-> "array", plugins |-> ps] :
      ps \in { <<Entry(TRUE, <<"b">>, <<"p">>, "true")>>,
               <<Entry(TRUE, <<"a">>, <<>>, "absent")>>,
               <<Entry(TRUE, <<"/", "d", "/", "e">>, <<"r">>, "absent"),
                 Entry(TRUE, <<" ", "a">>, <<"'", "p", "'">>, "false")>>,
               <<Entry(TRUE, <<"c">>, <<>>, "absent")>> } }

LoadChainRender ==
  /\ pc = "loadChain"
  /\ LoadChainFrom(RenderManifests)

OpenOutputAny ==
  /\ pc = "loadLoop"
  /\ slotIdx > Len(slots)
  /\ OpenOutputWith(AnyFrameCounts)

NextRender ==
  \/ ParseArgs
  \/ CheckInput
  \/ CheckChain
  \/ CreateReader
  \/ LoadChainRender
  \/ SkipBypassed
  \/ LoadSlotFails
  \/ LoadSlot
  \/ OpenOutputAny
  \/ CreateWriter
  \/ RenderBegin
  \/ ProcessBlock
  \/ WriteSegment
  \/ RenderEnd

\* main runs on one thread and no step of it waits for anything: a step
\* that can be taken is taken
SpecRender == Init /\ [][NextRender]_vars /\ WF_vars(NextRender)

renderFinished ==
  /\ pc = "done" /\ exitCode = ExitOk
  /\ IF totalSamples > 0 THEN position = totalSamples
     ELSE position = 0 /\ output = <<>>

\* C20: once the writer is open, for every length of the input (zero and
\* negative lengths included) and every block size, main reaches return 0
\* with the position at the length of the input, and without an iteration
\* when the length is not positive; every iteration moves the position
\* forward by the segment length, which is positive.
C20_RenderTerminates ==
  /\ (pc = "render") ~> renderFinished
  /\ [][Len(output') > Len(output) =>
          /\ block > 0
          /\ position' = position + block
          /\ position' <= totalSamples]_vars

C20_Witness ==
  /\ renderFinished
  /\ Len(output) = 3
  /\ args.blockSize = MinBlockSize
  /\ totalSamples = 2 * MinBlockSize + 1
  /\ Len(instances) = 2

(* ------------------------------------------- C21: the working buffer *)
RECURSIVE frameCount(_)
frameCount(runs) ==
  IF runs = <<>> THEN 0 ELSE Head(runs).n + frameCount(Tail(runs))

\* the run that holds frame i of the content, frames counted from 0
RECURSIVE runOfFrame(_, _)
runOfFrame(runs, i) ==
  IF i < Head(runs).n THEN Head(runs)
  ELSE runOfFrame(Tail(runs), i - Head(runs).n)

\* C21: in every segment, the clipped last one included, each instance is
\* handed the whole buffer of blockSize frames, not one of the length of the
\* segment; when the first instance is entered the frames from the segment
\* length on are zero and untouched, the frames before it are the samples
\* read at the position; only the first segment-length frames of the
\* processed buffer are appended to the output.
C21_WholeBuffer ==
  /\ pc = "process" =>
       /\ buffer.size = args.blockSize
       /\ frameCount(buffer.runs) = args.blockSize
       /\ buffer.len = block /\ block <= args.blockSize
       /\ Len(buffer.handed) = j - 1
       /\ \A k \in 1..Len(buffer.handed) : buffer.handed[k] = args.blockSize
       /\ j = 1 =>
            \A i \in 0..(args.blockSize - 1) :
              LET run == runOfFrame(buffer.runs, i)
              IN IF i < block
                 THEN run.kind = "input" /\ run.pos = position /\ run.by = <<>>
                 ELSE run.kind = "zero" /\ run.by = <<>>
  /\ \A k \in 1..Len(output) :
       /\ frameCount(output[k].frames) = output[k].len
       /\ \A i \in 1..Len(output[k].frames) :
            /\ output[k].frames[i].kind = "input"
            /\ output[k].frames[i].pos = output[k].pos
            /\ output[k].frames[i].by = instanceIds

C21_Witness ==
  /\ pc = "process" /\ j = 1
  /\ Len(output) >= 1
  /\ block < args.blockSize
  /\ Len(instances) >= 1
  /\ Len(buffer.runs) = 2

====
